---- MODULE Spec2Model ----
(***************************************************************************)
(* State-machine model of the SE Insight backend (src/backend/main.py):    *)
(* the per-connection audio windowing (AudioProcessor), the engine chain   *)
(* and its statistics (ASRProcessor), the session registry                 *)
(* (ConnectionManager), the websocket message loop (websocket_endpoint,    *)
(* handle_control_message, handle_audio_data), the idle sweep             *)
(* (periodic_cleanup), the terminology dictionary with its API             *)
(* (SE_TERMS, add_se_term, delete_se_term), term extraction and the        *)
(* explanation engine (AdvancedRAGEngine).                                 *)
(*                                                                         *)
(* Conventions                                                             *)
(*  - The asyncio event loop runs one task at a time, so the code between  *)
(*    two suspension points is one action.  The suspension points          *)
(*    modelled are: waiting for the next inbound frame                     *)
(*    (websocket.receive), waiting for an engine call                      *)
(*    (loop.run_in_executor) and the sweep's asyncio.sleep.  A send        *)
(*    (websocket.send_text) completes inside the action that issues it.    *)
(*  - time.time() is the variable now, in ticks.  A client id              *)
(*    (int(time.time() * 1000)) is the tick at which the endpoint ran, so  *)
(*    two connections accepted within the same tick get the same id.       *)
(*  - A sample is the pair <<connection, sequence number>>, so that every  *)
(*    sample ever sent is distinguishable from every other.                *)
(*  - Floats: confidences are in hundredths (0.7 is 70); the running       *)
(*    average is an exact fraction <<numerator, denominator>>.             *)
(*  - Optional values: None is the empty sequence, a present value x is    *)
(*    <<x>>.                                                               *)
(***************************************************************************)
EXTENDS Integers, Sequences, FiniteSets, TLC

\* The transport-level connections (websockets) that clients may open.
Conns == {"w1", "w2"}

\* The engines of the chain, in the order transcribe_audio tries them.
ChainOrder == <<"whisper", "sr", "mock">>

(***************************************************************************)
(* Bounds of the model.                                                    *)
(***************************************************************************)
\* Last tick of the clock.
MaxTime == 3
\* Largest number of pieces in a text given to term extraction.
MaxPieces == 2
\* Number of samples one client sends over its connection.
MaxSamples == 10
\* Largest number of samples in one audio frame.
MaxPacket == 2
\* AudioConfig.sample_rate, scaled down from 16000 samples per second.
sample_rate == 2
\* The idle timeout of cleanup_inactive_connections, scaled from 300 s.
InactivityTimeout == 1
\* The sleep of periodic_cleanup, scaled from 60 s.
CleanupInterval == 1
\* ASRConfig.max_processing_time, scaled from 5 s.
max_processing_time == 1

(***************************************************************************)
(* Program constants.                                                      *)
(***************************************************************************)
\* AudioConfig.buffer_duration, in seconds.
buffer_duration == 2

VARIABLES
    now,                 \* time.time()
    whisper_model,       \* TRUE iff the global whisper_model is not None
    asr_engine,          \* TRUE iff the global asr_engine is not None
    pc,                  \* per connection: where its websocket_endpoint task is
    client_id,           \* per connection: the local client_id of its task
    transport,           \* per connection: "open" or "closed" (client side)
    next_sample,         \* per connection: samples the client has sent so far
    audio_chunk,         \* per connection: the local audio_chunk of handle_audio_data
    start_time,          \* per connection: the local start_time of transcribe_audio
    tried,               \* per connection: engines invoked for the current window
    result,              \* per connection: what the last transcribe_audio returned
    last_msg,            \* per connection: the last message sent on its websocket
    active_connections,  \* ConnectionManager.active_connections
    audio_processors,    \* ConnectionManager.audio_processors (the buffers)
    connection_info,     \* ConnectionManager.connection_info
    connection_stats,    \* ConnectionManager.connection_stats
    processing_stats,    \* ASRProcessor.processing_stats
    recorded_times,      \* history: processing times passed to _update_avg_processing_time
    sweep_wake,          \* the time at which periodic_cleanup wakes up next
    swept,               \* history: client ids removed by the idle sweep
    SE_TERMS,            \* the module-level dict SE_TERMS
    term_relationships,  \* rag_engine.term_relationships
    response,            \* the last response of the term API
    extracted,           \* the last text given to term extraction, and the results
    keybert_model,       \* the module-level keybert_model: loaded or None
    transcription        \* the last TranscriptionResult an engine function built

vars == <<now, whisper_model, asr_engine, pc, client_id, transport, next_sample,
          audio_chunk, start_time, tried, result, last_msg, active_connections,
          audio_processors, connection_info, connection_stats, processing_stats,
          recorded_times, sweep_wake, swept, SE_TERMS, term_relationships,
          response, extracted, keybert_model, transcription>>

termVars == <<SE_TERMS, term_relationships, response, extracted,
              keybert_model, transcription>>

connVars == <<pc, client_id, transport, next_sample, audio_chunk, start_time,
              tried, result>>

regVars == <<last_msg, active_connections, audio_processors, connection_info,
             connection_stats>>

None == <<>>

Some(x) == <<x>>

Min(a, b) == IF a < b THEN a ELSE b

(***************************************************************************)
(* Exact fractions <<numerator, denominator>>, kept in lowest terms.       *)
(***************************************************************************)
RECURSIVE GCD(_, _)
GCD(a, b) == IF b = 0 THEN a ELSE GCD(b, a % b)

Frac(n, d) == LET g == GCD(n, d) IN IF g = 0 THEN <<0, 1>> ELSE <<n \div g, d \div g>>

(***************************************************************************)
(* Dictionaries (Python dict): functions whose domain is the set of keys.  *)
(***************************************************************************)
Put(f, key, v) == [x \in DOMAIN f \cup {key} |-> IF x = key THEN v ELSE f[x]]

Del(f, key) == [x \in DOMAIN f \ {key} |-> f[x]]

Last(s) == s[Len(s)]

\* The set of the elements of a sequence.
Range(seq) == {seq[i] : i \in 1..Len(seq)}

(***************************************************************************)
(* AudioProcessor                                                          *)
(***************************************************************************)
\* required_samples / chunk_samples: int(sample_rate * buffer_duration).
chunk_samples == sample_rate * buffer_duration

\* overlap_samples = chunk_samples // 4.
overlap_samples == chunk_samples \div 4

\* buffer[a:] of Python, a >= 0.
SliceFrom(buffer, a) == SubSeq(buffer, a + 1, Len(buffer))

\* buffer[:b] of Python, b >= 0.
SliceTo(buffer, b) == SubSeq(buffer, 1, Min(b, Len(buffer)))

\* A faulty add_audio_data, ready as soon as the buffer is not empty; C1
\* distinguishes it from the code.
add_audio_data_eager(buffer, audio_array) ==
    LET extended == buffer \o audio_array
    IN  [buffer |-> extended, ready |-> Len(extended) > 0]

\* add_audio_data: the buffer after the frame is appended, and the flag returned.
add_audio_data(buffer, audio_array) ==
    LET extended == buffer \o audio_array
    IN  [buffer |-> extended, ready |-> Len(extended) >= chunk_samples]

\* A faulty get_audio_chunk that hands out all it has; C21 distinguishes it
\* from the code.
get_audio_chunk_whole_buffer(buffer) ==
    IF Len(buffer) = 0
    THEN [chunk |-> None, buffer |-> buffer]
    ELSE [chunk  |-> Some(buffer),
          buffer |-> SliceFrom(buffer, chunk_samples - overlap_samples)]

\* A faulty get_audio_chunk that keeps no overlap; C2 distinguishes it from
\* the code.
get_audio_chunk_no_overlap(buffer) ==
    IF Len(buffer) = 0
    THEN [chunk |-> None, buffer |-> buffer]
    ELSE [chunk  |-> Some(SliceTo(buffer, chunk_samples)),
          buffer |-> SliceFrom(buffer, chunk_samples)]

\* get_audio_chunk: the chunk returned (None for an empty buffer) and the
\* buffer left behind.
get_audio_chunk(buffer) ==
    IF Len(buffer) = 0
    THEN [chunk |-> None, buffer |-> buffer]
    ELSE [chunk  |-> Some(SliceTo(buffer, chunk_samples)),
          buffer |-> SliceFrom(buffer, chunk_samples - overlap_samples)]

(***************************************************************************)
(* ASRProcessor                                                            *)
(***************************************************************************)
NoResult == [status |-> "nocall", engine |-> "none", confidence |-> 0,
             processing_time |-> 0]

\* transcribe_audio returned None.
ReturnedNone == [NoResult EXCEPT !.status = "none"]

\* A TranscriptionResult of the given engine, as an Optional.
TranscriptionResult(engine, confidence) ==
    Some([status |-> "ok", engine |-> engine, confidence |-> confidence,
          processing_time |-> 0])

\* A faulty mock that yields no result; C3 distinguishes it from the code.
mock_transcription_failing == None

\* _mock_transcription: always a result, of confidence 0.7.
mock_transcription == TranscriptionResult("mock", 70)

\* No engine function has built a result yet.
NoTranscription == [engine |-> "none", text |-> <<>>, keywords |-> <<>>,
                    explanations |-> <<>>, confidence |-> 0, timestamp |-> 0]

\* _transcribe_with_whisper, given whether the executor call produced text:
\* a result of confidence 0.9, or None (empty text or any exception).
transcribe_with_whisper(ok) ==
    IF ok THEN TranscriptionResult("whisper", 90) ELSE None

\* _transcribe_with_sr: a result of confidence 0.8, or None.
transcribe_with_sr(ok) ==
    IF ok THEN TranscriptionResult("sr", 80) ELSE None

\* A faulty update that takes the count for the one before the increment; C5
\* distinguishes it from the code.
update_avg_pre_increment(stats, processing_time) ==
    LET total_successful == stats.successful_transcriptions
        current_avg == stats.avg_processing_time
        new_avg == Frac(current_avg[1] * total_successful
                            + processing_time * current_avg[2],
                        current_avg[2] * (total_successful + 1))
    IN  [stats EXCEPT !.avg_processing_time = new_avg]

\* _update_avg_processing_time, called after successful_transcriptions was
\* incremented: ((current_avg * (total_successful - 1)) + processing_time)
\* / total_successful.
update_avg_processing_time(stats, processing_time) ==
    LET total_successful == stats.successful_transcriptions
        current_avg == stats.avg_processing_time
        new_avg == Frac(current_avg[1] * (total_successful - 1)
                            + processing_time * current_avg[2],
                        current_avg[2] * total_successful)
    IN  [stats EXCEPT !.avg_processing_time = new_avg]

\* The success branch of transcribe_audio for a real engine (lines 232-235):
\* the statistics after it.
record_success(stats, processing_time) ==
    update_avg_processing_time(
        [stats EXCEPT !.successful_transcriptions = @ + 1], processing_time)

\* A faulty chain that gives up the real engines after the first failure; C4
\* distinguishes it from the code.
engine_from_first_only(i) ==
    IF i <= 1 /\ whisper_model THEN "whisper"
    ELSE IF i <= 1 /\ asr_engine THEN "sr"
    ELSE "mock"

\* The engine transcribe_audio turns to once the engines before position i of
\* ChainOrder are exhausted: the first loaded real engine from i on, else mock.
engine_from(i) ==
    IF i <= 1 /\ whisper_model THEN "whisper"
    ELSE IF i <= 2 /\ asr_engine THEN "sr"
    ELSE "mock"

(***************************************************************************)
(* Strings of the terminology code.  A term or a text is the sequence of   *)
(* its characters, so that str.lower() and the substring test "in" are     *)
(* computed character by character; a definition text is an atom ("" is    *)
(* the empty one), nothing in the code looks inside it.                    *)
(***************************************************************************)
UpperCase == <<"A", "B", "C", "D", "E", "F", "G", "H", "I", "J", "K", "L", "M",
               "N", "O", "P", "Q", "R", "S", "T", "U", "V", "W", "X", "Y", "Z">>

LowerCase == <<"a", "b", "c", "d", "e", "f", "g", "h", "i", "j", "k", "l", "m",
               "n", "o", "p", "q", "r", "s", "t", "u", "v", "w", "x", "y", "z">>

\* The lowercase letter of each uppercase letter.
LowerOf == [ch \in {UpperCase[j] : j \in 1..26} |->
               LowerCase[CHOOSE j \in 1..26 : UpperCase[j] = ch]]

\* str.lower()
lower(str) ==
    [i \in 1..Len(str) |->
        IF str[i] \in DOMAIN LowerOf THEN LowerOf[str[i]] ELSE str[i]]

\* "sub in str" of Python strings: sub occurs in str as a contiguous run.
contains(str, sub) ==
    \E i \in 0..(Len(str) - Len(sub)) : SubSeq(str, i + 1, i + Len(sub)) = sub

\* The string literals of the term tables.
s_software_architecture ==
    <<"s", "o", "f", "t", "w", "a", "r", "e", " ", "a", "r", "c", "h", "i", "t", "e", "c", "t", "u", "r", "e">>

s_design_pattern ==
    <<"d", "e", "s", "i", "g", "n", " ", "p", "a", "t", "t", "e", "r", "n">>

s_microservices ==
    <<"m", "i", "c", "r", "o", "s", "e", "r", "v", "i", "c", "e", "s">>

s_api ==
    <<"a", "p", "i">>

s_rest ==
    <<"r", "e", "s", "t">>

s_database ==
    <<"d", "a", "t", "a", "b", "a", "s", "e">>

s_algorithm ==
    <<"a", "l", "g", "o", "r", "i", "t", "h", "m">>

s_data_structure ==
    <<"d", "a", "t", "a", " ", "s", "t", "r", "u", "c", "t", "u", "r", "e">>

s_object_oriented ==
    <<"o", "b", "j", "e", "c", "t", " ", "o", "r", "i", "e", "n", "t", "e", "d">>

s_functional_programming ==
    <<"f", "u", "n", "c", "t", "i", "o", "n", "a", "l", " ", "p", "r", "o", "g", "r", "a", "m", "m", "i", "n", "g">>

(***************************************************************************)
(* Python dicts that are iterated (SE_TERMS, term_relationships) keep the  *)
(* insertion order: such a dict is the sequence of its items               *)
(* [key |-> k, value |-> v], no key twice.                                 *)
(***************************************************************************)
DictKeys(d) == [i \in 1..Len(d) |-> d[i].key]

DictHas(d, k) == \E i \in 1..Len(d) : d[i].key = k

\* d.get(k, default)
DictGet(d, k, default) ==
    IF DictHas(d, k) THEN d[CHOOSE i \in 1..Len(d) : d[i].key = k].value
    ELSE default

\* d[k] = v: a present key keeps its place, a new one goes to the end.
DictSet(d, k, v) ==
    IF DictHas(d, k)
    THEN [i \in 1..Len(d) |-> IF d[i].key = k THEN [key |-> k, value |-> v] ELSE d[i]]
    ELSE Append(d, [key |-> k, value |-> v])

\* del d[k]
DictDel(d, k) == SelectSeq(d, LAMBDA e : e.key # k)

\* x in list
InList(x, list) == \E i \in 1..Len(list) : list[i] = x

\* list[:n]
FirstN(list, n) == SubSeq(list, 1, Min(n, Len(list)))

\* The module-level SE_TERMS as the source file defines it.
DefaultTerms ==
    <<
       [key |-> s_software_architecture,
        value |-> "The fundamental structures of a software system and the discipline of creating such structures and systems."],
       [key |-> s_design_pattern,
        value |-> "A general, reusable solution to a commonly occurring problem within a given context in software design."],
       [key |-> s_microservices,
        value |-> "An architectural style that structures an application as a collection of loosely coupled services."],
       [key |-> s_api,
        value |-> "Application Programming Interface - a set of protocols and tools for building software applications."],
       [key |-> s_rest,
        value |-> "Representational State Transfer - an architectural style for designing networked applications."],
       [key |-> s_database,
        value |-> "An organized collection of structured information, or data, typically stored electronically."],
       [key |-> s_algorithm,
        value |-> "A process or set of rules to be followed in calculations or other problem-solving operations."],
       [key |-> s_data_structure,
        value |-> "A data organization, management, and storage format that enables efficient access and modification."],
       [key |-> s_object_oriented,
        value |-> "A programming paradigm based on the concept of objects, which contain data and code."],
       [key |-> s_functional_programming,
        value |-> "A programming paradigm that treats computation as the evaluation of mathematical functions."]
    >>

(***************************************************************************)
(* AdvancedRAGEngine                                                       *)
(***************************************************************************)
\* _categorize_term: the first category, in the order of the dict literal,
\* whose list has the term; "general" if none has.
categorize_term(term) ==
    LET categories ==
            <<[key |-> "architecture",
               value |-> <<s_software_architecture, s_microservices,
                           s_design_pattern, s_api, s_rest>>],
              [key |-> "programming",
               value |-> <<s_object_oriented, s_functional_programming, s_algorithm>>],
              [key |-> "data", value |-> <<s_database, s_data_structure>>],
              [key |-> "web", value |-> <<s_api, s_rest>>]>>
        hits == SelectSeq(categories, LAMBDA e : InList(term, e.value))
    IN  IF hits # <<>> THEN hits[1].key ELSE "general"

\* _assess_complexity
assess_complexity(term) ==
    IF InList(term, <<s_api, s_database, s_algorithm>>) THEN "beginner"
    ELSE IF InList(term, <<s_object_oriented, s_design_pattern, s_rest>>)
         THEN "intermediate"
    ELSE IF InList(term, <<s_software_architecture, s_microservices,
                           s_functional_programming>>)
         THEN "advanced"
    ELSE "intermediate"

\* A faulty _get_prerequisites whose list for "microservices" is in the other
\* order; C20 distinguishes it from the code.
get_prerequisites_swapped(term) ==
    DictGet(<<[key |-> s_microservices, value |-> <<s_api, s_software_architecture>>],
              [key |-> s_design_pattern, value |-> <<s_object_oriented>>],
              [key |-> s_functional_programming, value |-> <<s_algorithm>>],
              [key |-> s_rest, value |-> <<s_api>>],
              [key |-> s_data_structure, value |-> <<s_algorithm>>]>>,
            term, <<>>)

\* _get_prerequisites
get_prerequisites(term) ==
    DictGet(<<[key |-> s_microservices, value |-> <<s_software_architecture, s_api>>],
              [key |-> s_design_pattern, value |-> <<s_object_oriented>>],
              [key |-> s_functional_programming, value |-> <<s_algorithm>>],
              [key |-> s_rest, value |-> <<s_api>>],
              [key |-> s_data_structure, value |-> <<s_algorithm>>]>>,
            term, <<>>)

\* The "related" list of build_term_relationships: the other terms of the
\* first of the three lists that has the term.
related_terms(term) ==
    LET architecture_terms == <<s_software_architecture, s_microservices,
                                s_design_pattern, s_api, s_rest>>
        programming_terms == <<s_object_oriented, s_functional_programming,
                               s_algorithm, s_data_structure>>
        data_terms == <<s_database, s_data_structure, s_algorithm>>
        Others(list) == SelectSeq(list, LAMBDA t : t # term)
    IN  IF InList(term, architecture_terms) THEN Others(architecture_terms)
        ELSE IF InList(term, programming_terms) THEN Others(programming_terms)
        ELSE IF InList(term, data_terms) THEN Others(data_terms)
        ELSE <<>>

\* build_term_relationships: one entry per key of terms_db, in its order.
build_term_relationships(terms_db) ==
    [i \in 1..Len(terms_db) |->
        LET term == terms_db[i].key
        IN  [key |-> term,
             value |-> [related |-> related_terms(term),
                        category |-> categorize_term(term),
                        complexity |-> assess_complexity(term),
                        prerequisites |-> get_prerequisites(term)]]]

\* _get_next_steps
get_next_steps(term) ==
    DictGet(<<[key |-> s_api, value |-> <<s_rest, s_microservices>>],
              [key |-> s_object_oriented,
               value |-> <<s_design_pattern, s_software_architecture>>],
              [key |-> s_algorithm,
               value |-> <<s_data_structure, s_functional_programming>>],
              [key |-> s_database,
               value |-> <<s_data_structure, s_software_architecture>>],
              [key |-> s_design_pattern,
               value |-> <<s_software_architecture, s_microservices>>]>>,
            term, <<>>)

\* generate_enhanced_explanation.  The free-text fields of the result
\* (practical_example, common_misconceptions, real_world_usage: lookups of
\* literals by term) are left out.
generate_enhanced_explanation(term) ==
    IF ~DictHas(SE_TERMS, lower(term))
    THEN [enhanced |-> FALSE, explanation |-> <<"No definition available for", term>>]
    ELSE LET relationships ==
                 DictGet(term_relationships, term,
                         [related |-> <<>>, category |-> "general",
                          complexity |-> "intermediate", prerequisites |-> <<>>])
         IN  [enhanced |-> TRUE,
              term |-> term,
              definition |-> DictGet(SE_TERMS, lower(term), ""),
              category |-> relationships.category,
              complexity |-> relationships.complexity,
              prerequisites |-> FirstN(relationships.prerequisites, 3),
              related_concepts |-> FirstN(relationships.related, 3),
              next_steps |-> get_next_steps(term)]

(***************************************************************************)
(* Term extraction                                                         *)
(***************************************************************************)
\* A faulty extraction that matches the text as it is, without lowercasing
\* it; C19 distinguishes it from the code.
simple_keyword_extraction_case_sensitive(text) ==
    SelectSeq(DictKeys(SE_TERMS), LAMBDA term : contains(text, term))

\* ASRProcessor._simple_keyword_extraction
simple_keyword_extraction(text) ==
    LET text_lower == lower(text)
    IN  SelectSeq(DictKeys(SE_TERMS), LAMBDA term : contains(text_lower, term))

\* extract_se_terms
extract_se_terms(text) ==
    LET text_lower == lower(text)
    IN  SelectSeq(DictKeys(SE_TERMS), LAMBDA term : contains(text_lower, term))

(***************************************************************************)
(* ConnectionManager.  The registry is handled as one record R so that the *)
(* calls a handler makes compose into one action:                          *)
(*   ac = active_connections, ap = audio_processors, ci = connection_info, *)
(*   cs = connection_stats, out = last message sent on each websocket.     *)
(***************************************************************************)
Registry == [ac |-> active_connections, ap |-> audio_processors,
             ci |-> connection_info, cs |-> connection_stats, out |-> last_msg]

Message(type, k) == [type |-> type, origin |-> k]

\* connect: the entries of client c are (over)written for websocket k.
connect(R, k, c) ==
    [R EXCEPT !.ac = Put(@, c, k),
              !.ap = Put(@, c, <<>>),
              !.ci = Put(@, c, [tab_id |-> None,
                                audio_packets_received |-> 0,
                                transcriptions_sent |-> 0,
                                last_activity |-> now]),
              !.cs.total_connections = @ + 1,
              !.cs.current_connections = @ + 1]

\* A faulty disconnect that leaves the client's audio processor behind; C26
\* distinguishes it from the code.
disconnect_keeps_processor(R, c) ==
    [R EXCEPT !.ac = Del(@, c),
              !.ci = Del(@, c),
              !.cs.current_connections = @ - 1]

\* disconnect: each map drops c if it has it; the counter is decremented
\* unconditionally.
disconnect(R, c) ==
    [R EXCEPT !.ac = Del(@, c),
              !.ap = Del(@, c),
              !.ci = Del(@, c),
              !.cs.current_connections = @ - 1]

\* A faulty send_personal_message that swallows the failure of send_text and
\* leaves the session registered; C16 distinguishes it from the code.
send_personal_message_keeps_session(R, message, c) ==
    IF c \notin DOMAIN R.ac THEN R
    ELSE LET ws == R.ac[c]
         IN  IF transport[ws] # "open" THEN R
             ELSE LET sent == [R EXCEPT !.out[ws] = message]
                  IN  IF message.type # "transcription" THEN sent
                      ELSE IF c \notin DOMAIN R.ci THEN disconnect(sent, c)
                      ELSE [sent EXCEPT !.ci[c].transcriptions_sent = @ + 1,
                                        !.cs.total_transcriptions = @ + 1]

\* send_personal_message: nothing for an unregistered client; send_text on the
\* registered websocket raises iff its transport is closed, and any exception
\* (also the KeyError of a missing connection_info entry) ends in disconnect.
send_personal_message(R, message, c) ==
    IF c \notin DOMAIN R.ac THEN R
    ELSE LET ws == R.ac[c]
         IN  IF transport[ws] # "open" THEN disconnect(R, c)
             ELSE LET sent == [R EXCEPT !.out[ws] = message]
                  IN  IF message.type # "transcription" THEN sent
                      ELSE IF c \notin DOMAIN R.ci THEN disconnect(sent, c)
                      ELSE [sent EXCEPT !.ci[c].transcriptions_sent = @ + 1,
                                        !.cs.total_transcriptions = @ + 1]

\* A faulty update_audio_packet_count that counts the frame on the session
\* only; C23 distinguishes it from the code.
update_audio_packet_count_session_only(R, c) ==
    IF c \in DOMAIN R.ci
    THEN [R EXCEPT !.ci[c].audio_packets_received = @ + 1,
                   !.ci[c].last_activity = now]
    ELSE R

\* update_audio_packet_count
update_audio_packet_count(R, c) ==
    IF c \in DOMAIN R.ci
    THEN [R EXCEPT !.ci[c].audio_packets_received = @ + 1,
                   !.ci[c].last_activity = now,
                   !.cs.total_audio_packets = @ + 1]
    ELSE R

\* A faulty sweep that lets a session idle one tick longer; C6 distinguishes it
\* from the code.
inactive_clients_late(ci, t) ==
    {c \in DOMAIN ci : t - ci[c].last_activity > InactivityTimeout + 1}

\* The clients cleanup_inactive_connections collects at time t.
inactive_clients(ci, t) ==
    {c \in DOMAIN ci : t - ci[c].last_activity > InactivityTimeout}

\* The loop "for client_id in inactive_clients: self.disconnect(client_id)".
RECURSIVE disconnect_all(_, _)
disconnect_all(R, S) ==
    IF S = {} THEN R
    ELSE LET c == CHOOSE x \in S : TRUE
         IN  disconnect_all(disconnect(R, c), S \ {c})

\* get_connection_stats()["active_clients"]
active_clients == DOMAIN connection_info

\* Writes a registry record back to the variables.
SetRegistry(R) ==
    /\ active_connections' = R.ac
    /\ audio_processors' = R.ap
    /\ connection_info' = R.ci
    /\ connection_stats' = R.cs
    /\ last_msg' = R.out

(***************************************************************************)
(* The event loop.  _transcribe_with_whisper and _transcribe_with_sr hand  *)
(* the engine call to loop.run_in_executor and await it, so the call runs  *)
(* in a worker thread and the loop goes on with the other tasks.  Were the *)
(* engine called directly in the coroutine, the loop would be busy until   *)
(* the call returns.                                                       *)
(***************************************************************************)
\* A faulty engine call made directly on the event loop; C15 distinguishes it
\* from the code.
engine_call_in_loop == FALSE

\* TRUE iff the engine calls go through loop.run_in_executor.
engine_call_in_executor == TRUE

\* The event loop is held by an engine call and can run no task.
loop_busy ==
    /\ ~engine_call_in_executor
    /\ \E j \in Conns : pc[j] \in {"whisper", "sr"}

(***************************************************************************)
(* Initial state: the server has started (initialize_models and            *)
(* startup_event have run), no client has connected yet.  Which real       *)
(* engines got loaded depends on the installation.                         *)
(***************************************************************************)
Init ==
    /\ now = 1
    /\ whisper_model \in BOOLEAN
    /\ asr_engine \in BOOLEAN
    /\ pc = [k \in Conns |-> "new"]
    /\ client_id = [k \in Conns |-> 0]
    /\ transport = [k \in Conns |-> "open"]
    /\ next_sample = [k \in Conns |-> 0]
    /\ audio_chunk = [k \in Conns |-> None]
    /\ start_time = [k \in Conns |-> 0]
    /\ tried = [k \in Conns |-> <<>>]
    /\ result = [k \in Conns |-> NoResult]
    /\ last_msg = [k \in Conns |-> Message("none", k)]
    /\ active_connections = <<>>
    /\ audio_processors = <<>>
    /\ connection_info = <<>>
    /\ connection_stats = [total_connections |-> 0, current_connections |-> 0,
                           total_audio_packets |-> 0, total_transcriptions |-> 0]
    /\ processing_stats = [total_requests |-> 0, successful_transcriptions |-> 0,
                           failed_transcriptions |-> 0,
                           avg_processing_time |-> <<0, 1>>]
    /\ recorded_times = <<>>
    /\ sweep_wake = 1
    /\ swept = {}
    /\ SE_TERMS = DefaultTerms
    /\ term_relationships = build_term_relationships(DefaultTerms)
    /\ response = [status |-> 0]
    /\ extracted = [text |-> <<>>, keywords |-> <<>>, terms |-> <<>>]
    /\ keybert_model = FALSE
    /\ transcription = NoTranscription

(***************************************************************************)
(* websocket_endpoint, up to its first receive: the client id is taken     *)
(* from the clock, the registry admits the session and the welcome message *)
(* is sent.                                                                *)
(***************************************************************************)
Connect(k) ==
    /\ ~loop_busy
    /\ pc[k] = "new"
    /\ transport[k] = "open"
    /\ LET c == now
           R1 == connect(Registry, k, c)
           R2 == send_personal_message(R1, Message("welcome", k), c)
       IN  /\ client_id' = [client_id EXCEPT ![k] = c]
           /\ SetRegistry(R2)
    /\ pc' = [pc EXCEPT ![k] = "receive"]
    /\ UNCHANGED <<termVars, now, whisper_model, asr_engine, transport, next_sample,
                   audio_chunk, start_time, tried, result, processing_stats,
                   recorded_times, sweep_wake, swept>>

(***************************************************************************)
(* The end of handle_audio_data once transcribe_audio has returned r (an   *)
(* Optional result): a result is sent to the client as a transcription     *)
(* message, None is dropped silently; the task goes back to receive.       *)
(***************************************************************************)
Return(k, R, stats, r, attempts) ==
    /\ pc' = [pc EXCEPT ![k] = "receive"]
    /\ tried' = [tried EXCEPT ![k] = attempts]
    /\ audio_chunk' = [audio_chunk EXCEPT ![k] = None]
    /\ start_time' = [start_time EXCEPT ![k] = 0]
    /\ processing_stats' = stats
    /\ IF r # None
       THEN /\ result' = [result EXCEPT ![k] = r[1]]
            /\ SetRegistry(send_personal_message(R, Message("transcription", k),
                                                 client_id[k]))
       ELSE /\ result' = [result EXCEPT ![k] = ReturnedNone]
            /\ SetRegistry(R)

(***************************************************************************)
(* transcribe_audio from position i of the chain on, the engines before it *)
(* having failed (attempts).  A real engine is awaited in the executor;    *)
(* the mock runs at once and its result, if any, gets the processing time  *)
(* and is returned without touching the success statistics.                *)
(***************************************************************************)
Continue(k, R, stats, i, attempts, chunk, started) ==
    LET e == engine_from(i)
    IN  IF e # "mock"
        THEN /\ pc' = [pc EXCEPT ![k] = e]
             /\ audio_chunk' = [audio_chunk EXCEPT ![k] = chunk]
             /\ start_time' = [start_time EXCEPT ![k] = started]
             /\ tried' = [tried EXCEPT ![k] =
                            Append(attempts, [engine |-> e, outcome |-> "pending"])]
             /\ result' = [result EXCEPT ![k] = [NoResult EXCEPT !.status = "pending"]]
             /\ processing_stats' = stats
             /\ SetRegistry(R)
        ELSE LET m == mock_transcription
                 r == IF m # None
                      THEN Some([m[1] EXCEPT !.processing_time = now - started])
                      ELSE None
                 outcome == IF m # None THEN "ok" ELSE "failed"
             IN  Return(k, R, stats, r,
                        Append(attempts, [engine |-> "mock", outcome |-> outcome]))

\* tried[k] with its pending (last) attempt settled.
Settled(k, outcome) == [tried[k] EXCEPT ![Len(tried[k])].outcome = outcome]

(***************************************************************************)
(* handle_audio_data for a frame of n samples, up to the first suspension. *)
(***************************************************************************)
RecvAudio(k, n) ==
    /\ ~loop_busy
    /\ pc[k] = "receive"
    /\ transport[k] = "open"
    /\ next_sample' = [next_sample EXCEPT ![k] = @ + n]
    /\ UNCHANGED <<termVars, now, whisper_model, asr_engine, client_id, transport,
                   recorded_times, sweep_wake, swept>>
    /\ LET c == client_id[k]
           audio_array == [i \in 1..n |-> <<k, next_sample[k] + i>>]
           R1 == update_audio_packet_count(Registry, c)
           Idle(R) == /\ SetRegistry(R)
                      /\ UNCHANGED <<pc, audio_chunk, start_time, tried, result,
                                     processing_stats>>
       IN  IF c \notin DOMAIN R1.ap
           THEN Idle(R1)
           ELSE LET added == add_audio_data(R1.ap[c], audio_array)
                    R2 == [R1 EXCEPT !.ap[c] = added.buffer]
                IN  IF ~added.ready
                    THEN Idle(R2)
                    ELSE LET got == get_audio_chunk(added.buffer)
                             R3 == [R2 EXCEPT !.ap[c] = got.buffer]
                         IN  IF got.chunk = None
                             THEN Idle(R3)
                             ELSE Continue(k, R3,
                                      [processing_stats EXCEPT !.total_requests = @ + 1],
                                      1, <<>>, got.chunk, now)

(***************************************************************************)
(* The Whisper call of connection k comes back, with text (ok) or without  *)
(* (empty text or an exception, caught in _transcribe_with_whisper).       *)
(***************************************************************************)
WhisperDone(k, ok) ==
    /\ pc[k] = "whisper"
    /\ UNCHANGED <<termVars, now, whisper_model, asr_engine, client_id, transport,
                   next_sample, sweep_wake, swept>>
    /\ LET r == transcribe_with_whisper(ok)
           processing_time == now - start_time[k]
       IN  IF r # None
           THEN /\ recorded_times' = Append(recorded_times, processing_time)
                /\ Return(k, Registry, record_success(processing_stats, processing_time),
                          Some([r[1] EXCEPT !.processing_time = processing_time]),
                          Settled(k, "ok"))
           ELSE /\ UNCHANGED recorded_times
                /\ Continue(k, Registry, processing_stats, 2, Settled(k, "failed"),
                            audio_chunk[k], start_time[k])

(***************************************************************************)
(* The speech_recognition call of connection k comes back.                 *)
(***************************************************************************)
SrDone(k, ok) ==
    /\ pc[k] = "sr"
    /\ UNCHANGED <<termVars, now, whisper_model, asr_engine, client_id, transport,
                   next_sample, sweep_wake, swept>>
    /\ LET r == transcribe_with_sr(ok)
           processing_time == now - start_time[k]
       IN  IF r # None
           THEN /\ recorded_times' = Append(recorded_times, processing_time)
                /\ Return(k, Registry, record_success(processing_stats, processing_time),
                          Some([r[1] EXCEPT !.processing_time = processing_time]),
                          Settled(k, "ok"))
           ELSE /\ UNCHANGED recorded_times
                /\ Continue(k, Registry, processing_stats, 3, Settled(k, "failed"),
                            audio_chunk[k], start_time[k])

\* The "tabId" a client puts in its "connection" message.
tabId == "tab"

\* A faulty handle_control_message that acknowledges a disconnect request but
\* returns True; C7 distinguishes it from the code.
handle_control_message_no_break(R, k, type) ==
    LET c == client_id[k]
        R1 == IF type = "connection" /\ c \in DOMAIN R.ci
              THEN [R EXCEPT !.ci[c].tab_id = Some(tabId)]
              ELSE R
    IN  IF type \in {"connection", "disconnect", "ping", "get_stats"}
        THEN [R |-> send_personal_message(R1,
                        Message(CASE type = "connection" -> "connection_ack"
                                  [] type = "disconnect" -> "disconnect_ack"
                                  [] type = "ping" -> "pong"
                                  [] OTHER -> "stats", k), c),
              should_continue |-> TRUE]
        ELSE [R |-> R, should_continue |-> TRUE]

\* A faulty handle_control_message that answers a text it cannot parse with
\* an error message; C17 distinguishes it from the code.
handle_control_message_rejecting(R, k, type) ==
    LET c == client_id[k]
        Answer(S, reply, continue) ==
            [R |-> send_personal_message(S, Message(reply, k), c),
             should_continue |-> continue]
    IN  CASE type = "connection" ->
                 Answer(IF c \in DOMAIN R.ci
                        THEN [R EXCEPT !.ci[c].tab_id = Some(tabId)]
                        ELSE R,
                        "connection_ack", TRUE)
          [] type = "disconnect" -> Answer(R, "disconnect_ack", FALSE)
          [] type = "ping" -> Answer(R, "pong", TRUE)
          [] type = "get_stats" -> Answer(R, "stats", TRUE)
          [] type \in {"invalid", "not_object"} -> Answer(R, "error", TRUE)
          [] OTHER -> [R |-> R, should_continue |-> TRUE]

(***************************************************************************)
(* handle_control_message for a text frame of the given type: the         *)
(* registry after it and the value returned (should_continue).  Besides    *)
(* the types the code has a branch for, "unknown" is a JSON object of any  *)
(* other type (or of none), "not_object" is JSON that is not an object     *)
(* (message.get raises, caught by "except Exception") and "invalid" is a   *)
(* text that is not JSON (JSONDecodeError).  A "connection" message sets   *)
(* the session's tab_id (and audio_format with it) before it is answered.  *)
(***************************************************************************)
ControlTypes == {"connection", "ping", "get_stats", "unknown", "not_object",
                 "invalid"}

handle_control_message(R, k, type) ==
    LET c == client_id[k]
        Answer(S, reply, continue) ==
            [R |-> send_personal_message(S, Message(reply, k), c),
             should_continue |-> continue]
    IN  CASE type = "connection" ->
                 Answer(IF c \in DOMAIN R.ci
                        THEN [R EXCEPT !.ci[c].tab_id = Some(tabId)]
                        ELSE R,
                        "connection_ack", TRUE)
          [] type = "disconnect" -> Answer(R, "disconnect_ack", FALSE)
          [] type = "ping" -> Answer(R, "pong", TRUE)
          [] type = "get_stats" -> Answer(R, "stats", TRUE)
          [] OTHER -> [R |-> R, should_continue |-> TRUE]

(***************************************************************************)
(* One pass of the loop of websocket_endpoint for a text frame: when       *)
(* handle_control_message returns False the loop breaks and the finally    *)
(* clause calls manager.disconnect.                                        *)
(***************************************************************************)
RecvText(k, type) ==
    /\ ~loop_busy
    /\ pc[k] = "receive"
    /\ transport[k] = "open"
    /\ LET h == handle_control_message(Registry, k, type)
       IN  IF h.should_continue
           THEN /\ SetRegistry(h.R)
                /\ UNCHANGED pc
           ELSE /\ SetRegistry(disconnect(h.R, client_id[k]))
                /\ pc' = [pc EXCEPT ![k] = "closed"]
    /\ UNCHANGED <<termVars, now, whisper_model, asr_engine, client_id, transport,
                   next_sample, audio_chunk, start_time, tried, result,
                   processing_stats, recorded_times, sweep_wake, swept>>

\* The client sends a control message other than a disconnect request.
RecvControl(k, type) == RecvText(k, type)

\* The client sends {"type": "disconnect"}.
RecvDisconnect(k) == RecvText(k, "disconnect")

(***************************************************************************)
(* The client closes the transport (or it breaks) without a disconnect     *)
(* request.                                                                *)
(***************************************************************************)
CloseTransport(k) ==
    /\ pc[k] \in {"receive", "whisper", "sr"}
    /\ transport[k] = "open"
    /\ transport' = [transport EXCEPT ![k] = "closed"]
    /\ UNCHANGED <<termVars, now, whisper_model, asr_engine, pc, client_id, next_sample,
                   audio_chunk, start_time, tried, result, regVars,
                   processing_stats, recorded_times, sweep_wake, swept>>

(***************************************************************************)
(* websocket.receive() raises on the closed transport.  The exception is   *)
(* caught by the "except Exception" inside the while loop (lines 801-807): *)
(* an error message is sent (which, the transport being closed, ends in    *)
(* manager.disconnect) and the loop goes on to the next receive.           *)
(***************************************************************************)
RecvError(k) ==
    /\ ~loop_busy
    /\ pc[k] = "receive"
    /\ transport[k] = "closed"
    /\ SetRegistry(send_personal_message(Registry, Message("error", k), client_id[k]))
    /\ UNCHANGED <<termVars, now, whisper_model, asr_engine, connVars, processing_stats,
                   recorded_times, sweep_wake, swept>>

(***************************************************************************)
(* periodic_cleanup wakes up: cleanup_inactive_connections, then sleep.    *)
(***************************************************************************)
Sweep ==
    /\ ~loop_busy
    /\ now >= sweep_wake
    /\ LET inactive == inactive_clients(connection_info, now)
       IN  /\ SetRegistry(disconnect_all(Registry, inactive))
           /\ swept' = swept \cup inactive
    /\ sweep_wake' = now + CleanupInterval
    /\ UNCHANGED <<termVars, now, whisper_model, asr_engine, connVars, processing_stats,
                   recorded_times>>

\* Time passes.  A tick is long next to the event loop's latency: a sweep that
\* is due runs before the next tick.
Tick ==
    /\ now < MaxTime
    /\ now < sweep_wake
    /\ now' = now + 1
    /\ UNCHANGED <<termVars, whisper_model, asr_engine, connVars, regVars, processing_stats,
                   recorded_times, sweep_wake, swept>>

\* The steps of the task serving connection k, and of its client, which sends
\* audio frames of the given sizes, at most limit samples in all, and no
\* control message but the disconnect request.
Pipeline(k, sizes, limit) ==
    \/ Connect(k)
    \/ \E n \in sizes : next_sample[k] + n <= limit /\ RecvAudio(k, n)
    \/ \E ok \in BOOLEAN : WhisperDone(k, ok)
    \/ \E ok \in BOOLEAN : SrDone(k, ok)
    \/ RecvDisconnect(k)
    \/ CloseTransport(k)
    \/ RecvError(k)

\* The same with a client that also sends the other control messages.
Step(k, sizes, limit) ==
    \/ Pipeline(k, sizes, limit)
    \/ \E type \in ControlTypes : RecvControl(k, type)

(***************************************************************************)
(* Spec: the server with one client, which sends frames of any size.       *)
(***************************************************************************)
Next ==
    \/ Step("w1", 1..MaxPacket, MaxSamples)
    \/ Sweep
    \/ Tick

Spec == Init /\ [][Next]_vars

(***************************************************************************)
(* SpecPair: the server with two clients, each sending one window of audio *)
(* in two frames of half a window and no control message but the           *)
(* disconnect request.                                                     *)
(***************************************************************************)
NextPair ==
    \/ \E k \in Conns : Pipeline(k, {chunk_samples \div 2}, chunk_samples)
    \/ Sweep
    \/ Tick

SpecPair == Init /\ [][NextPair]_vars

\* AudioConfig.max_buffer_size: the samples of ten seconds of audio.
max_buffer_size == 10 * sample_rate

(***************************************************************************)
(* SpecBuffer: the server with one client, which sends frames of half a    *)
(* window and frames that are longer than max_buffer_size.                 *)
(***************************************************************************)
NextBuffer ==
    \/ Pipeline("w1", {chunk_samples \div 2, max_buffer_size + chunk_samples},
                max_buffer_size + 2 * chunk_samples)
    \/ Sweep
    \/ Tick

SpecBuffer == Init /\ [][NextBuffer]_vars

(***************************************************************************)
(* SpecFair: Spec with the fairness of the event loop.  A task that can    *)
(* run does run: the message loop gets the exception of a receive on a     *)
(* closed transport, the sweep wakes up when its sleep is over, the clock  *)
(* advances, and an engine call that was started comes back.  What a       *)
(* client sends is up to the client.                                       *)
(***************************************************************************)
SpecFair ==
    /\ Init
    /\ [][Next]_vars
    /\ WF_vars(RecvError("w1"))
    /\ WF_vars(\E ok \in BOOLEAN : WhisperDone("w1", ok))
    /\ WF_vars(\E ok \in BOOLEAN : SrDone("w1", ok))
    /\ WF_vars(Sweep)
    /\ WF_vars(Tick)

(***************************************************************************)
(* The term API and term extraction.  The inputs: terms and texts in       *)
(* mixed case, a term that is not in the default table, the empty term and *)
(* the empty definition, and texts in which terms occur inside longer      *)
(* words ("capital" has "api").                                            *)
(***************************************************************************)
s_Kafka == <<"K", "a", "f", "k", "a">>

s_API == <<"A", "P", "I">>

s_Microservices == <<"M", "i", "c", "r", "o", "s", "e", "r", "v", "i", "c", "e", "s">>

TermInputs == {<<>>, s_Kafka, s_microservices, s_Microservices}

DefinitionInputs == {"", "A distributed event streaming platform."}

TextPieces == {<<"c", "a", "p", "i", "t", "a", "l">>,
               <<"R", "E", "S", "T">>,
               s_Kafka}

\* The texts made of at most n pieces.
RECURSIVE TextInputs(_)
TextInputs(n) ==
    IF n = 0 THEN {<<>>}
    ELSE LET shorter == TextInputs(n - 1)
         IN  shorter \cup {t \o piece : t \in shorter, piece \in TextPieces}

\* POST /se-terms
add_se_term(term, definition) ==
    /\ IF term = <<>> \/ definition = ""
       THEN /\ response' = [status |-> 400]
            /\ UNCHANGED SE_TERMS
       ELSE /\ SE_TERMS' = DictSet(SE_TERMS, lower(term), definition)
            /\ response' = [status |-> 200, term |-> term,
                            definition |-> definition,
                            total_terms |-> Len(SE_TERMS')]
    /\ UNCHANGED <<term_relationships, extracted, now, whisper_model, asr_engine,
                   connVars, regVars, processing_stats, recorded_times,
                   sweep_wake, swept, keybert_model, transcription>>

\* DELETE /se-terms/{term}
delete_se_term(term) ==
    /\ LET term_lower == lower(term)
       IN  IF ~DictHas(SE_TERMS, term_lower)
           THEN /\ response' = [status |-> 404]
                /\ UNCHANGED SE_TERMS
           ELSE /\ SE_TERMS' = DictDel(SE_TERMS, term_lower)
                /\ response' = [status |-> 200, term |-> term,
                                total_terms |-> Len(SE_TERMS')]
    /\ UNCHANGED <<term_relationships, extracted, now, whisper_model, asr_engine,
                   connVars, regVars, processing_stats, recorded_times,
                   sweep_wake, swept, keybert_model, transcription>>

\* GET /se-terms/{term}/enhanced
get_enhanced_explanation(term) ==
    /\ IF ~DictHas(SE_TERMS, lower(term))
       THEN response' = [status |-> 404]
       ELSE response' = [status |-> 200, term |-> term,
                         enhanced_explanation |-> generate_enhanced_explanation(term)]
    /\ UNCHANGED <<SE_TERMS, term_relationships, extracted, now, whisper_model,
                   asr_engine, connVars, regVars, processing_stats,
                   recorded_times, sweep_wake, swept, keybert_model, transcription>>

\* A text goes through term extraction, by either function.
ExtractTerms(text) ==
    /\ extracted' = [text |-> text,
                     keywords |-> simple_keyword_extraction(text),
                     terms |-> extract_se_terms(text)]
    /\ UNCHANGED <<SE_TERMS, term_relationships, response, now, whisper_model,
                   asr_engine, connVars, regVars, processing_stats,
                   recorded_times, sweep_wake, swept, keybert_model, transcription>>

(***************************************************************************)
(* SpecTerms: the started server under requests to the term API; no        *)
(* websocket client.                                                       *)
(***************************************************************************)
NextTerms ==
    \/ \E term \in TermInputs, definition \in DefinitionInputs :
           add_se_term(term, definition)
    \/ \E term \in TermInputs : delete_se_term(term)
    \/ \E term \in TermInputs : get_enhanced_explanation(term)

SpecTerms == Init /\ [][NextTerms]_vars

(***************************************************************************)
(* SpecExtract: texts go through term extraction while the term API adds   *)
(* and deletes a term the texts have ("api") and one that is not in the    *)
(* default table ("kafka").  The engines play no part in it: they are      *)
(* taken as loaded.                                                        *)
(***************************************************************************)
NextExtract ==
    \/ \E term \in {s_Kafka, s_API}, definition \in DefinitionInputs :
           add_se_term(term, definition)
    \/ \E term \in {s_Kafka, s_API} : delete_se_term(term)
    \/ \E text \in TextInputs(MaxPieces) : ExtractTerms(text)

InitExtract == Init /\ whisper_model = TRUE /\ asr_engine = TRUE

SpecExtract == InitExtract /\ [][NextExtract]_vars

(***************************************************************************)
(* The content of a TranscriptionResult: the text an engine function got,  *)
(* the keywords of _extract_keywords and the map of _generate_explanations. *)
(* handle_audio_data copies the three into the transcription message as    *)
(* they are.                                                               *)
(***************************************************************************)
\* The canned sentences of _mock_transcription.
mock_responses ==
    <<
       <<"S", "o", "f", "t", "w", "a", "r", "e", " ", "a", "r", "c", "h", "i", "t", "e", "c", "t", "u", "r", "e", " ", "d", "e", "f", "i", "n", "e", "s", " ", "t", "h", "e", " ", "f", "u", "n", "d", "a", "m", "e", "n", "t", "a", "l", " ", "s", "t", "r", "u", "c", "t", "u", "r", "e", "s", " ", "o", "f", " ", "a", " ", "s", "y", "s", "t", "e", "m", ".">>,
       <<"W", "e", " ", "n", "e", "e", "d", " ", "t", "o", " ", "i", "m", "p", "l", "e", "m", "e", "n", "t", " ", "a", " ", "R", "E", "S", "T", " ", "A", "P", "I", " ", "f", "o", "r", " ", "o", "u", "r", " ", "m", "i", "c", "r", "o", "s", "e", "r", "v", "i", "c", "e", "s", " ", "a", "r", "c", "h", "i", "t", "e", "c", "t", "u", "r", "e", ".">>,
       <<"T", "h", "e", " ", "d", "a", "t", "a", "b", "a", "s", "e", " ", "d", "e", "s", "i", "g", "n", " ", "p", "a", "t", "t", "e", "r", "n", " ", "s", "h", "o", "u", "l", "d", " ", "f", "o", "l", "l", "o", "w", " ", "n", "o", "r", "m", "a", "l", "i", "z", "a", "t", "i", "o", "n", " ", "p", "r", "i", "n", "c", "i", "p", "l", "e", "s", ".">>,
       <<"O", "b", "j", "e", "c", "t", " ", "o", "r", "i", "e", "n", "t", "e", "d", " ", "p", "r", "o", "g", "r", "a", "m", "m", "i", "n", "g", " ", "u", "s", "e", "s", " ", "c", "l", "a", "s", "s", "e", "s", " ", "a", "n", "d", " ", "i", "n", "h", "e", "r", "i", "t", "a", "n", "c", "e", " ", "m", "e", "c", "h", "a", "n", "i", "s", "m", "s", ".">>,
       <<"F", "u", "n", "c", "t", "i", "o", "n", "a", "l", " ", "p", "r", "o", "g", "r", "a", "m", "m", "i", "n", "g", " ", "e", "m", "p", "h", "a", "s", "i", "z", "e", "s", " ", "i", "m", "m", "u", "t", "a", "b", "l", "e", " ", "d", "a", "t", "a", " ", "s", "t", "r", "u", "c", "t", "u", "r", "e", "s", " ", "a", "n", "d", " ", "p", "u", "r", "e", " ", "f", "u", "n", "c", "t", "i", "o", "n", "s", ".">>,
       <<"A", "l", "g", "o", "r", "i", "t", "h", "m", " ", "c", "o", "m", "p", "l", "e", "x", "i", "t", "y", " ", "a", "n", "a", "l", "y", "s", "i", "s", " ", "h", "e", "l", "p", "s", " ", "o", "p", "t", "i", "m", "i", "z", "e", " ", "s", "y", "s", "t", "e", "m", " ", "p", "e", "r", "f", "o", "r", "m", "a", "n", "c", "e", ".">>,
       <<"D", "e", "s", "i", "g", "n", " ", "p", "a", "t", "t", "e", "r", "n", "s", " ", "p", "r", "o", "v", "i", "d", "e", " ", "r", "e", "u", "s", "a", "b", "l", "e", " ", "s", "o", "l", "u", "t", "i", "o", "n", "s", " ", "t", "o", " ", "c", "o", "m", "m", "o", "n", " ", "p", "r", "o", "g", "r", "a", "m", "m", "i", "n", "g", " ", "p", "r", "o", "b", "l", "e", "m", "s", ".">>
    >>

s_system == <<"s", "y", "s", "t", "e", "m">>
s_capital == <<"c", "a", "p", "i", "t", "a", "l">>

\* Phrases KeyBERT may score above 0.3.
Keyphrases == {s_software_architecture, s_system, s_rest, s_capital}

\* keybert_model.extract_keywords, filtered by score: some list of phrases
\* of the lowercased text; which ones is the library's choice.
KeyBERTOutputs(text) ==
    LET found == {phrase \in Keyphrases : contains(lower(text), phrase)}
    IN  {<<>>} \cup {<<p>> : p \in found}
               \cup {<<pq[1], pq[2]>> : pq \in {x \in found \X found : x[1] # x[2]}}

\* ASRProcessor._extract_keywords: KeyBERT's phrases when the model is
\* loaded and the call does not raise, the dictionary match otherwise.
extract_keywords(text, keyphrases, raises) ==
    IF keybert_model /\ ~raises THEN keyphrases
    ELSE simple_keyword_extraction(text)

\* ASRProcessor._generate_explanations
RECURSIVE generate_explanations(_)
generate_explanations(keywords) ==
    IF keywords = <<>> THEN <<>>
    ELSE LET explanations == generate_explanations(FirstN(keywords, Len(keywords) - 1))
             keyword == Last(keywords)
         IN  IF DictHas(SE_TERMS, lower(keyword))
             THEN DictSet(explanations, keyword, DictGet(SE_TERMS, lower(keyword), ""))
             ELSE explanations

\* The result an engine function builds from its text.
BuildResult(engine, confidence, text, keyphrases, raises) ==
    LET keywords == extract_keywords(text, keyphrases, raises)
    IN  /\ transcription' = [engine |-> engine, text |-> text,
                             keywords |-> keywords,
                             explanations |-> generate_explanations(keywords),
                             confidence |-> confidence, timestamp |-> now]
        /\ UNCHANGED <<SE_TERMS, term_relationships, response, extracted,
                       keybert_model, now, whisper_model, asr_engine, connVars,
                       regVars, processing_stats, recorded_times, sweep_wake,
                       swept>>

\* _transcribe_with_whisper, from the stripped text on.
TranscribeWithWhisper(text, keyphrases, raises) ==
    /\ whisper_model
    /\ text # <<>>
    /\ BuildResult("whisper", 90, text, keyphrases, raises)

\* _transcribe_with_sr, from the recognised text on.
TranscribeWithSr(text, keyphrases, raises) ==
    /\ asr_engine
    /\ text # <<>>
    /\ BuildResult("sr", 80, text, keyphrases, raises)

\* _mock_transcription: the sentence is picked by the clock.
MockTranscription(keyphrases, raises) ==
    LET text == mock_responses[(now % Len(mock_responses)) + 1]
    IN  /\ keyphrases \in KeyBERTOutputs(text)
        /\ BuildResult("mock", 70, text, keyphrases, raises)

\* init_keybert, the background thread of initialize_models, succeeds.
KeyBERTLoaded ==
    /\ keybert_model = FALSE
    /\ keybert_model' = TRUE
    /\ UNCHANGED <<SE_TERMS, term_relationships, response, extracted,
                   transcription, now, whisper_model, asr_engine, connVars,
                   regVars, processing_stats, recorded_times, sweep_wake, swept>>

(***************************************************************************)
(* SpecContent: the engine functions build results while time passes and   *)
(* KeyBERT finishes loading; no websocket client, and the dictionary is    *)
(* left as it is.                                                          *)
(***************************************************************************)
NextContent ==
    \/ \E text \in TextPieces, raises \in BOOLEAN :
           \E keyphrases \in KeyBERTOutputs(text) :
               TranscribeWithWhisper(text, keyphrases, raises)
    \/ \E text \in TextPieces, raises \in BOOLEAN :
           \E keyphrases \in KeyBERTOutputs(text) :
               TranscribeWithSr(text, keyphrases, raises)
    \/ \E raises \in BOOLEAN :
           \E keyphrases \in UNION {KeyBERTOutputs(m) : m \in Range(mock_responses)} :
               MockTranscription(keyphrases, raises)
    \/ KeyBERTLoaded
    \/ Sweep
    \/ Tick

SpecContent == Init /\ [][NextContent]_vars

(***************************************************************************)
(* Properties                                                              *)
(***************************************************************************)
\* The frame that connection k's client sends in the current step (empty when
\* the step is not an audio frame of k).
FrameOf(k) ==
    [i \in 1..(next_sample'[k] - next_sample[k]) |-> <<k, next_sample[k] + i>>]

\* Client c is in some map of the registry.
Registered(c) ==
    c \in DOMAIN active_connections \cup DOMAIN audio_processors
             \cup DOMAIN connection_info

RECURSIVE SumSeq(_)
SumSeq(s) == IF s = <<>> THEN 0 ELSE s[1] + SumSeq(Tail(s))

\* C1: while the samples buffered for a session, the frame just received
\* included, are fewer than one window (sample_rate * buffer_duration),
\* handle_audio_data only appends the frame: it extracts no window and does not
\* call transcribe_audio.
C1_NoWindowBelowLength ==
    [][\A k \in Conns :
        LET c == client_id[k]
        IN  (/\ next_sample'[k] # next_sample[k]
             /\ c \in DOMAIN audio_processors
             /\ Len(audio_processors[c]) + Len(FrameOf(k)) < sample_rate * buffer_duration)
            => /\ audio_processors' = [audio_processors EXCEPT ![c] = @ \o FrameOf(k)]
               /\ audio_chunk'[k] = None
               /\ pc'[k] = "receive"
               /\ tried' = tried
               /\ result' = result
               /\ processing_stats' = processing_stats]_vars

\* C1 witness: a session has received several frames, holds one sample less
\* than a window, and no transcription was ever requested.
C1_Witness ==
    \E c \in DOMAIN audio_processors :
        /\ Len(audio_processors[c]) = sample_rate * buffer_duration - 1
        /\ connection_info[c].audio_packets_received >= 2
        /\ processing_stats.total_requests = 0

\* C2: when a frame brings the buffer to at least one window, the window is the
\* first chunk_samples samples, and the buffer afterwards is the last
\* chunk_samples // 4 samples of that window followed by the samples behind
\* the window, in order (unless the delivery of an immediate result failed and
\* removed the session with its buffer).
C2_OverlapCarriedOnce ==
    [][\A k \in Conns :
        LET c == client_id[k]
            W == sample_rate * buffer_duration
            full == audio_processors[c] \o FrameOf(k)
        IN  (/\ next_sample'[k] # next_sample[k]
             /\ c \in DOMAIN audio_processors
             /\ Len(full) >= W)
            => /\ c \in DOMAIN audio_processors' =>
                      audio_processors'[c] =
                          SubSeq(full, W - (W \div 4) + 1, W) \o SubSeq(full, W + 1, Len(full))
               /\ pc'[k] # "receive" => audio_chunk'[k] = <<SubSeq(full, 1, W)>>
               /\ processing_stats'.total_requests = processing_stats.total_requests + 1]_vars

\* C2 witness: a window has just been extracted (its engine call is pending)
\* from a buffer that held samples behind the window.
C2_Witness ==
    /\ pc["w1"] \in {"whisper", "sr"}
    /\ client_id["w1"] \in DOMAIN audio_processors
    /\ Len(audio_processors[client_id["w1"]]) > (sample_rate * buffer_duration) \div 4
    /\ processing_stats.total_requests >= 2

\* C3: transcribe_audio never returns None, and a result of the mock has
\* confidence 0.7; the mock, once invoked, always yields a result.
C3_MockAlwaysSucceeds ==
    \A k \in Conns :
        /\ result[k].status # "none"
        /\ result[k].engine = "mock" =>
               result[k].status = "ok" /\ result[k].confidence = 70
        /\ \A i \in 1..Len(tried[k]) :
               tried[k][i].engine = "mock" =>
                   /\ tried[k][i].outcome = "ok"
                   /\ result[k].engine = "mock"

\* C3 witness: both real engines are loaded, both failed on the window, and
\* the mock supplied the result.
C3_Witness ==
    /\ whisper_model
    /\ asr_engine
    /\ Len(tried["w1"]) = 3
    /\ result["w1"].status = "ok"
    /\ result["w1"].engine = "mock"

\* The engines that can be invoked, in chain order.
AvailableChain ==
    SelectSeq(ChainOrder, LAMBDA e : \/ e = "whisper" /\ whisper_model
                                     \/ e = "sr" /\ asr_engine
                                     \/ e = "mock")

\* C4: the engines invoked for a window are the available engines in the order
\* Whisper, speech_recognition, mock, without gaps; every engine before the
\* last one invoked has failed (so nothing is invoked after a result); the
\* chain never stops at a failed engine; and the result returned is that of
\* the last engine invoked.
C4_ChainOrder ==
    \A k \in Conns :
        LET t == tried[k]
        IN  /\ Len(t) <= Len(AvailableChain)
            /\ \A i \in 1..Len(t) : t[i].engine = AvailableChain[i]
            /\ \A i \in 1..(Len(t) - 1) : t[i].outcome = "failed"
            /\ t # <<>> => Last(t).outcome \in {"pending", "ok"}
            /\ pc[k] \in {"whisper", "sr"} <=>
                   (t # <<>> /\ Last(t).outcome = "pending")
            /\ pc[k] \in {"whisper", "sr"} => Last(t).engine = pc[k]
            /\ result[k].status = "ok" =>
                   /\ t # <<>>
                   /\ Last(t) = [engine |-> result[k].engine, outcome |-> "ok"]

\* C4 witness: Whisper failed, speech_recognition was tried next and returned
\* the result; the mock was not invoked.
C4_Witness ==
    /\ tried["w1"] = <<[engine |-> "whisper", outcome |-> "failed"],
                       [engine |-> "sr", outcome |-> "ok"]>>
    /\ result["w1"].engine = "sr"

\* C5: with N = successful_transcriptions >= 1, avg_processing_time is the
\* arithmetic mean of the N processing times recorded (their sum over N), and
\* its denominator is never zero.
C5_RunningAverageIsMean ==
    LET N == processing_stats.successful_transcriptions
        avg == processing_stats.avg_processing_time
    IN  /\ N = Len(recorded_times)
        /\ avg[2] > 0
        /\ N >= 1 => avg[1] * N = SumSeq(recorded_times) * avg[2]

\* C5 witness: three successes whose processing times differ and whose mean is
\* not a whole number.
C5_Witness ==
    /\ processing_stats.successful_transcriptions = 3
    /\ Cardinality({recorded_times[i] : i \in 1..Len(recorded_times)}) >= 2
    /\ processing_stats.avg_processing_time[2] = 3

C7_DisconnectClosesSession ==
    [][\A k \in Conns :
        LET c == client_id[k]
        IN  /\ (pc[k] # "closed" /\ pc'[k] = "closed") =>
                   /\ (c \in DOMAIN active_connections /\ active_connections[c] = k) =>
                          last_msg'[k] = Message("disconnect_ack", k)
                   /\ ~Registered(c)'
            /\ (last_msg'[k].type = "disconnect_ack" /\ last_msg'[k] # last_msg[k]) =>
                   pc'[last_msg'[k].origin] = "closed"
            /\ pc[k] = "closed" =>
                   /\ pc'[k] = "closed"
                   /\ next_sample'[k] = next_sample[k]
                   /\ audio_chunk'[k] = None
                   /\ tried'[k] = tried[k]
                   /\ last_msg'[k] = last_msg[k]]_vars

\* C7 witness: a session that had received audio was closed by a disconnect
\* request, and the acknowledgment is the last message on its websocket.
C7_Witness ==
    /\ pc["w1"] = "closed"
    /\ last_msg["w1"] = Message("disconnect_ack", "w1")
    /\ next_sample["w1"] > 0
    /\ ~Registered(client_id["w1"])

\* C8 (the claim as stated): with two active sessions, a buffer holds only the
\* samples of the connection registered for it, a transcription message on a
\* websocket comes from a window of that connection's own handler, and a step
\* in which an engine fails for one connection leaves the counters of every
\* other session unchanged.
C8_Isolated ==
    /\ \A c \in DOMAIN audio_processors :
           \A i \in 1..Len(audio_processors[c]) :
               audio_processors[c][i][1] = active_connections[c]
    /\ \A k \in Conns :
           last_msg[k].type = "transcription" => last_msg[k].origin = k

C8_SessionsIsolated ==
    [][/\ C8_Isolated'
       /\ \A k \in Conns :
              (/\ pc[k] \in {"whisper", "sr"}
               /\ tried'[k] # tried[k]
               /\ tried'[k][Len(tried[k])].outcome = "failed")
              => \A c \in DOMAIN connection_info \ {client_id[k]} :
                     /\ c \in DOMAIN connection_info'
                     /\ connection_info'[c] = connection_info[c]]_vars

\* C9 (the claim as stated): current_connections is the number of sessions in
\* the registry and is never negative.
C9_CurrentConnectionsExact ==
    /\ connection_stats.current_connections = Cardinality(DOMAIN active_connections)
    /\ connection_stats.current_connections >= 0

\* C10 (the claim as stated): once the transport of a connected client is
\* closed without a disconnect request, its message loop eventually ends and
\* its session is out of the registry.
C10_ClosedTransportEndsLoop ==
    \A k \in {"w1"} :
        (transport[k] = "closed" /\ pc[k] # "closed")
            ~> (pc[k] = "closed" /\ ~Registered(client_id[k]))

\* C11 (the claim as stated): every step that handles an inbound message of a
\* registered session, an audio frame or a control message of any type that
\* leaves the session registered, sets the session's last_activity to the
\* current time.
C11_EveryMessageRefreshesActivity ==
    [][\A k \in Conns :
        LET c == client_id[k]
        IN  (/\ \/ \E type \in ControlTypes : RecvControl(k, type)
                \/ \E n \in 1..MaxPacket : RecvAudio(k, n)
             /\ c \in DOMAIN connection_info
             /\ c \in DOMAIN connection_info')
            => connection_info'[c].last_activity = now]_vars

\* C12 (the claim as stated): two connections whose message loops are running
\* and whose sessions are registered have different client ids, and each is
\* the websocket registered under its own id.
C12_UniqueClientIds ==
    \A k1, k2 \in Conns :
        (/\ k1 # k2
         /\ pc[k1] \in {"receive", "whisper", "sr"}
         /\ pc[k2] \in {"receive", "whisper", "sr"}
         /\ client_id[k1] \in DOMAIN active_connections
         /\ client_id[k2] \in DOMAIN active_connections)
        => /\ client_id[k1] # client_id[k2]
           /\ active_connections[client_id[k1]] = k1

\* C14 (the claim as stated): an engine call is abandoned once it has run for
\* max_processing_time, so the first engine call of a window (which starts
\* when transcribe_audio does) is never pending for longer than that.
C14_EngineCallAbandoned ==
    \A k \in Conns :
        (pc[k] \in {"whisper", "sr"} /\ Len(tried[k]) = 1)
            => now - start_time[k] <= max_processing_time

\* C15: while the engine call of one connection is pending, the task of any
\* other connection that waits for a message can receive and handle, up to
\* its next suspension point, an audio frame as well as a control message of
\* any type; the pending call does not hold the event loop.
C15_PendingCallDoesNotBlock ==
    \A k1, k2 \in Conns :
        (/\ k1 # k2
         /\ pc[k1] \in {"whisper", "sr"}
         /\ pc[k2] = "receive"
         /\ transport[k2] = "open")
        => /\ \A n \in 1..MaxPacket : ENABLED RecvAudio(k2, n)
           /\ \A type \in ControlTypes \cup {"disconnect"} : ENABLED RecvText(k2, type)

\* C15 witness: the engine call of one connection has been pending since an
\* earlier tick, and meanwhile the session of the other connection has handled
\* an audio frame (its last_activity is the current time).
C15_Witness ==
    /\ pc["w1"] \in {"whisper", "sr"}
    /\ start_time["w1"] < now
    /\ pc["w2"] = "receive"
    /\ client_id["w2"] # client_id["w1"]
    /\ client_id["w2"] \in DOMAIN connection_info
    /\ connection_info[client_id["w2"]].audio_packets_received >= 1
    /\ connection_info[client_id["w2"]].last_activity = now

\* C16: a step in which a task sends a message (the error message after a
\* failed receive, or the result of a transcription) to a session whose
\* registered websocket is closed removes that session from all three maps,
\* delivers nothing, leaves every other session's entries as they were, and
\* the sending task goes on with its loop (nothing is raised to it).
C16_FailedSendDisconnects ==
    [][\A k \in Conns :
        LET c == client_id[k]
        IN  (/\ c \in DOMAIN active_connections
             /\ transport[active_connections[c]] = "closed"
             /\ \/ RecvError(k)
                \/ /\ \E ok \in BOOLEAN : WhisperDone(k, ok) \/ SrDone(k, ok)
                   /\ pc'[k] = "receive")
            => /\ ~Registered(c)'
               /\ pc'[k] = "receive"
               /\ last_msg' = last_msg
               /\ connection_stats'.total_transcriptions
                      = connection_stats.total_transcriptions
               /\ \A d \in DOMAIN active_connections \ {c} :
                      /\ d \in DOMAIN active_connections'
                      /\ active_connections'[d] = active_connections[d]
                      /\ audio_processors'[d] = audio_processors[d]
                      /\ connection_info'[d] = connection_info[d]]_vars

\* C16 witness: the session of a connection whose transport is closed was
\* removed by a failed send (not by the sweep, not by a disconnect request)
\* while its task is still in its loop, and the other session is registered.
C16_Witness ==
    /\ transport["w1"] = "closed"
    /\ pc["w1"] = "receive"
    /\ client_id["w1"] \notin swept
    /\ ~Registered(client_id["w1"])
    /\ client_id["w2"] # client_id["w1"]
    /\ client_id["w2"] \in DOMAIN active_connections
    /\ active_connections[client_id["w2"]] = "w2"
    /\ Len(audio_processors[client_id["w2"]]) > 0

\* C17: whenever a connection waits for a message, a text frame that is not
\* JSON, or is JSON but not an object, can be handled, and handling it changes
\* nothing at all: no reply, no change to the session or the registry, and
\* the task is back at its receive, ready for the next message.
C17_InvalidControlIgnored ==
    \A k \in Conns : \A type \in {"invalid", "not_object"} :
        (pc[k] = "receive" /\ transport[k] = "open")
        => /\ ENABLED RecvText(k, type)
           /\ ~ENABLED (RecvText(k, type) /\ vars' # vars)
           /\ handle_control_message(Registry, k, type)
                  = [R |-> Registry, should_continue |-> TRUE]

\* C17 witness: a registered session with a tab id, received audio and a
\* message already sent to it can be sent a text that is not JSON.
C17_Witness ==
    /\ ENABLED RecvText("w1", "invalid")
    /\ client_id["w1"] \in DOMAIN connection_info
    /\ connection_info[client_id["w1"]].tab_id # None
    /\ connection_info[client_id["w1"]].audio_packets_received >= 1
    /\ last_msg["w1"].type = "transcription"

\* C18 (the claim as stated): the relationship table has exactly the terms of
\* the dictionary as its keys.
C18_RelationshipsFollowTerms ==
    Range(DictKeys(term_relationships)) = Range(DictKeys(SE_TERMS))

\* Term t occurs in the text at some offset, compared character by character
\* with the text's characters lowercased.
Occurs(t, text) ==
    \E i \in 0..(Len(text) - Len(t)) :
        \A j \in 1..Len(t) :
            t[j] = IF text[i + j] \in DOMAIN LowerOf THEN LowerOf[text[i + j]]
                   ELSE text[i + j]

\* C19: each extraction returns, from either function, a list without
\* repetition whose elements are exactly the keys of the dictionary that occur
\* in the lowercased text as a contiguous run of characters, inside a longer
\* word or not.
C19_ExtractionIsSubstringMatch ==
    [][extracted' # extracted =>
          LET expected == {t \in Range(DictKeys(SE_TERMS)) : Occurs(t, extracted'.text)}
          IN  /\ Range(extracted'.keywords) = expected
              /\ Len(extracted'.keywords) = Cardinality(expected)
              /\ Range(extracted'.terms) = expected
              /\ Len(extracted'.terms) = Cardinality(expected)]_vars

\* C19 witness: from a text in mixed case, "api" was found inside "capital"
\* and so was a term added through the API; "rest" is not in the text.
C19_Witness ==
    /\ extracted.text = <<"c", "a", "p", "i", "t", "a", "l">> \o s_Kafka
    /\ extracted.keywords = <<s_api, lower(s_Kafka)>>
    /\ extracted.terms = extracted.keywords

C21_ChunkIsOneWindow ==
    [][\A k \in Conns :
        LET c == client_id[k]
            W == sample_rate * buffer_duration
        IN  /\ audio_chunk'[k] # None => Len(audio_chunk'[k][1]) = W
            /\ (next_sample'[k] # next_sample[k] /\ c \in DOMAIN audio_processors) =>
                   LET full == audio_processors[c] \o FrameOf(k)
                   IN  /\ Len(full) < W =>
                              /\ audio_chunk'[k] = None
                              /\ result'[k] = result[k]
                       /\ audio_chunk'[k] # None =>
                              /\ Len(full) >= W
                              /\ \A i \in 1..W : audio_chunk'[k][1][i] = full[i]
                       /\ (Len(full) >= W /\ audio_chunk'[k] = None) =>
                              /\ result'[k].status = "ok"
                              /\ result'[k].engine = "mock"]_vars

\* C21 witness: a chunk is being transcribed that was cut from a buffer
\* holding more than one window (the rest is still buffered behind the
\* overlap), after an earlier window of the same session.
C21_Witness ==
    /\ pc["w1"] \in {"whisper", "sr"}
    /\ audio_chunk["w1"] # None
    /\ client_id["w1"] \in DOMAIN audio_processors
    /\ Len(audio_processors[client_id["w1"]]) = overlap_samples + 1
    /\ connection_info[client_id["w1"]].transcriptions_sent >= 1

\* C22 (the claim as stated): whenever an engine function builds a result,
\* with KeyBERT loaded or not, every keyword is a term of the dictionary that
\* occurs in the lowercased text, and the explanations map has exactly the
\* keywords as its keys.
C22_KeywordsAreDictionaryTerms ==
    [][transcription' # transcription =>
          /\ \A i \in 1..Len(transcription'.keywords) :
                 /\ DictHas(SE_TERMS, transcription'.keywords[i])
                 /\ Occurs(transcription'.keywords[i], transcription'.text)
          /\ Range(DictKeys(transcription'.explanations))
                 = Range(transcription'.keywords)]_vars

\* C25 (the claim as stated): two successive results of the mock, built
\* without KeyBERT (the dictionary and the engines' availability never change
\* in SpecContent), have the same text, keywords and confidence.
C25_MockIsDeterministic ==
    [][(/\ transcription.engine = "mock"
        /\ transcription'.engine = "mock"
        /\ ~keybert_model') =>
          /\ transcription'.text = transcription.text
          /\ transcription'.keywords = transcription.keywords
          /\ transcription'.confidence = transcription.confidence]_vars

\* Connection k receives an audio frame in this step.
FrameReceived(k) == next_sample'[k] # next_sample[k]

\* The handling of a frame of connection k ends with a result in this step,
\* and send_text to the websocket registered for its client id succeeds.
TranscriptionSent(k) ==
    /\ pc'[k] = "receive"
    /\ result'[k].status = "ok"
    /\ \/ pc[k] \in {"whisper", "sr"}
       \/ /\ FrameReceived(k)
          /\ processing_stats'.total_requests # processing_stats.total_requests
    /\ client_id[k] \in DOMAIN active_connections
    /\ transport[active_connections[client_id[k]]] = "open"

\* C23: the registry totals and the session counters move together.  A step
\* raises total_audio_packets (by one) exactly when a frame arrives on a
\* registered session, whose audio_packets_received goes up by one with it;
\* it raises total_transcriptions (by one) exactly when a transcription
\* message is sent successfully, and the session's transcriptions_sent goes
\* up by one with it; a session's counters change in no other way, except
\* that admitting its client id again starts them at zero.
C23_CountersMoveTogether ==
    [][LET ci == connection_info
           cs == connection_stats
           OnSession(k) == FrameReceived(k) /\ client_id[k] \in DOMAIN ci
       IN  /\ cs'.total_audio_packets =
                  cs.total_audio_packets
                      + (IF \E k \in Conns : OnSession(k) THEN 1 ELSE 0)
           /\ cs'.total_transcriptions =
                  cs.total_transcriptions
                      + (IF \E k \in Conns : TranscriptionSent(k) THEN 1 ELSE 0)
           /\ \A k \in Conns :
                  LET c == client_id[k]
                  IN  /\ (OnSession(k) /\ c \in DOMAIN ci') =>
                             ci'[c].audio_packets_received
                                 = ci[c].audio_packets_received + 1
                      /\ TranscriptionSent(k) =>
                             /\ c \in DOMAIN ci /\ c \in DOMAIN ci'
                             /\ ci'[c].transcriptions_sent
                                    = ci[c].transcriptions_sent + 1
           /\ \A c \in DOMAIN ci \cap DOMAIN ci' :
                  /\ ci'[c].audio_packets_received # ci[c].audio_packets_received =>
                         \/ \E k \in Conns : OnSession(k) /\ client_id[k] = c
                         \/ /\ ci'[c].audio_packets_received = 0
                            /\ cs'.total_connections = cs.total_connections + 1
                  /\ ci'[c].transcriptions_sent # ci[c].transcriptions_sent =>
                         \/ \E k \in Conns : TranscriptionSent(k) /\ client_id[k] = c
                         \/ /\ ci'[c].transcriptions_sent = 0
                            /\ cs'.total_connections = cs.total_connections + 1]_vars

\* Two sessions have received frames and one of them a transcription.
C23_Witness ==
    /\ connection_stats.total_audio_packets >= 3
    /\ connection_stats.total_transcriptions >= 1
    /\ \E c \in DOMAIN connection_info, d \in DOMAIN connection_info :
           /\ c # d
           /\ connection_info[c].audio_packets_received >= 1
           /\ connection_info[d].audio_packets_received >= 1
           /\ connection_info[c].transcriptions_sent >= 1

\* C24 (the claim as stated): once the idle sweep has removed a session, the
\* server ends the connection itself.  A task waiting in receive moves only
\* when the client sends or closes, so the claim leaves no state in which
\* the session is swept while its task still waits in receive on an open
\* transport.
C24_SweepEndsConnection ==
    \A k \in Conns :
        (client_id[k] \in swept /\ client_id[k] \notin DOMAIN connection_info) =>
            ~(pc[k] = "receive" /\ transport[k] = "open")

\* C26: the three maps of the registry have the same client ids.
C26_RegistryMapsAgree ==
    /\ DOMAIN active_connections = DOMAIN audio_processors
    /\ DOMAIN audio_processors = DOMAIN connection_info

\* One session has been registered and removed while another is registered.
C26_Witness ==
    /\ pc["w1"] = "closed"
    /\ client_id["w1"] \notin DOMAIN audio_processors
    /\ connection_stats.total_connections = 2
    /\ client_id["w2"] \in DOMAIN audio_processors
    /\ client_id["w2"] # client_id["w1"]

\* C27 (the claim as stated): within one session, that is for one client id
\* of the registry, at most one window is being transcribed at any time.
C27_OneWindowAtATime ==
    \A c \in DOMAIN audio_processors :
        Cardinality({k \in Conns : /\ client_id[k] = c
                                   /\ pc[k] \in {"whisper", "sr"}
                                   /\ audio_chunk[k] # None}) <= 1

\* C28 (the claim as stated): whatever frames a client sends, a session's
\* buffer never holds more than max_buffer_size samples.
C28_BufferBounded ==
    \A c \in DOMAIN audio_processors :
        Len(audio_processors[c]) <= max_buffer_size

\* C29 (the claim as stated): whenever no call of transcribe_audio is in
\* progress, every request has been counted as a success or as a failure.
C29_RequestsAccounted ==
    (\A k \in Conns : pc[k] \notin {"whisper", "sr"}) =>
        processing_stats.total_requests =
            processing_stats.successful_transcriptions
                + processing_stats.failed_transcriptions

\* C30 (the claim as stated): the enhanced explanation returned for a term
\* as the client wrote it has the definition, category, complexity,
\* prerequisites, related concepts and next steps of the explanation of the
\* lowercase term.
C30_ExplanationIgnoresCase ==
    (response.status = 200 /\ "enhanced_explanation" \in DOMAIN response) =>
        LET got == response.enhanced_explanation
            of_lower == generate_enhanced_explanation(lower(response.term))
        IN  /\ got.definition = of_lower.definition
            /\ got.category = of_lower.category
            /\ got.complexity = of_lower.complexity
            /\ got.prerequisites = of_lower.prerequisites
            /\ got.related_concepts = of_lower.related_concepts
            /\ got.next_steps = of_lower.next_steps

====
